---- MODULE Spec2Model ----
(***************************************************************************)
(* Model of the XLA GPU backend's kernel-definition filter (GpuOpFilter,   *)
(* tensorflow/compiler/tf2xla/xla_gpu_backend.cc) and of the dynamic-      *)
(* dimension handling of the concat lowering (ConcatBaseOp::Compile,       *)
(* tensorflow/compiler/tf2xla/kernels/concat_op.cc).                       *)
(***************************************************************************)
EXTENDS Integers, Sequences, FiniteSets, TLC

(* ------------------------------ bounds -------------------------------- *)
MaxSlots == 2
MaxTypes == 2
MaxFilterRuns == 2
MaxN == 3
MaxRank == 2
MaxExtent == 2

(* --------------------------- element types ---------------------------- *)
DT_FLOAT == "DT_FLOAT"
DT_INT32 == "DT_INT32"
DT_STRING == "DT_STRING"
DT_FLOAT8_E4M3FN == "DT_FLOAT8_E4M3FN"

\* The element types a kernel definition may declare before the filter runs.
DataTypes == {DT_FLOAT, DT_STRING, DT_FLOAT8_E4M3FN}

\* The backend's full supported element-type list (abridged).
kGpuAllTypes == <<DT_FLOAT, DT_INT32, DT_FLOAT8_E4M3FN>>

OpNames == {"Const", "Assert", "ConcatV2", "MatMul"}
SlotNames == {"T", "dtype"}

\* Sequences of at most n elements of S.
SeqUpTo(S, n) == UNION {[1..k -> S] : k \in 0..n}

\* allowed_values().list(): a repeated field of element types.
TypeLists ==
    {s \in SeqUpTo(DataTypes, MaxTypes) :
        \A sl, j \in DOMAIN s : sl # j => s[sl] # s[j]}

\* KernelDef::AttrConstraint
AttrConstraint == [name : SlotNames, allowed : TypeLists]

\* KernelDef: the op name and the repeated constraint field.
KernelDef == [op : OpNames, constraint : SeqUpTo(AttrConstraint, MaxSlots)]

Range(s) == {s[sl] : sl \in DOMAIN s}

VARIABLES
    kdef,         \* the kernel definition the filter mutates in place
    kdef_in,      \* the definition as it was handed to the first filter run
    filter_runs,  \* how many times GpuOpFilter has run on kdef
    eligible      \* the value GpuOpFilter last returned ("unset" before)

fvars == <<kdef, kdef_in, filter_runs, eligible>>

VARIABLES
    inputs,                \* the shapes of the N inputs, in input order
    axis,                  \* the concat axis
    pc,                    \* where ConcatBaseOp::Compile stands
    i,                     \* the loop counter
    instrs,                \* the instructions of ctx->builder(), in emission order
    result,                \* xla::XlaOp result
    any_input_dynamic,
    dynamic_size_sum,      \* xla::XlaOp, 0 while default-constructed
    size_sum_initialized,
    output,                \* the op given to ctx->SetOutput(0, .), 0 while unset
    status                 \* the status the kernel context ends with

cvars == <<inputs, axis, pc, i, instrs, result, any_input_dynamic,
           dynamic_size_sum, size_sum_initialized, output, status>>

vars == <<fvars, cvars>>

\* No concat is being lowered.
IdleConcat ==
    /\ inputs = <<>>
    /\ axis = 0
    /\ pc = "idle"
    /\ i = 0
    /\ instrs = <<>>
    /\ result = 0
    /\ any_input_dynamic = FALSE
    /\ dynamic_size_sum = 0
    /\ size_sum_initialized = FALSE
    /\ output = 0
    /\ status = "idle"

\* No kernel definition is being filtered.
IdleFilter ==
    /\ kdef = [op |-> "MatMul", constraint |-> <<>>]
    /\ kdef_in = kdef
    /\ filter_runs = 0
    /\ eligible = "unset"

(* ------------------- tf2xla_util / xla_op_registry -------------------- *)
\* AddDtypeToKernelDefConstraint(name, dtype, kdef): every constraint slot
\* called `name` gets dtype added to its allowed list.
AddDtypeToKernelDefConstraint(name, dtype, k) ==
    [k EXCEPT !.constraint =
        [sl \in DOMAIN k.constraint |->
            IF k.constraint[sl].name = name
            THEN [k.constraint[sl] EXCEPT !.allowed = Append(@, dtype)]
            ELSE k.constraint[sl]]]

(* ---------------------------- GpuOpFilter ----------------------------- *)
\* Faulty variant: the restrictive list is cleared but the GPU types are never added.
WidenConstraint_ClearOnly(c) ==
    IF c.name = "T"
    THEN IF Len(c.allowed) = 1 /\ c.allowed[1] = DT_FLOAT8_E4M3FN
         THEN [c EXCEPT !.allowed = <<>>]
         ELSE c
    ELSE c

\* Faulty variant: the type_size() == 1 test is dropped, only type(0) is looked at.
WidenConstraint_NoSizeCheck(c) ==
    IF c.name = "T"
    THEN IF Len(c.allowed) >= 1 /\ c.allowed[1] = DT_FLOAT8_E4M3FN
         THEN [c EXCEPT !.allowed = kGpuAllTypes]
         ELSE c
    ELSE c

\* Faulty variant: the constraint.name() == "T" test is dropped.
WidenConstraint_AnyName(c) ==
    IF Len(c.allowed) = 1 /\ c.allowed[1] = DT_FLOAT8_E4M3FN
    THEN [c EXCEPT !.allowed = kGpuAllTypes]
    ELSE c

\* The body of the loop over the ConcatV2 kernel's constraints.
WidenConstraint(c) ==
    IF c.name = "T"
    THEN IF Len(c.allowed) = 1 /\ c.allowed[1] = DT_FLOAT8_E4M3FN
         THEN [c EXCEPT !.allowed = kGpuAllTypes]   \* clear_type, then add_type each
         ELSE c
    ELSE c

\* Faulty variant: the Const rule names the slot "T" instead of "dtype".
ConstRule_WrongSlot(k) ==
    IF k.op = "Const"
    THEN AddDtypeToKernelDefConstraint("T", DT_STRING, k)
    ELSE k

ConstRule(k) ==
    IF k.op = "Const"
    THEN AddDtypeToKernelDefConstraint("dtype", DT_STRING, k)
    ELSE k

AssertRule(k) ==
    IF k.op = "Assert"
    THEN AddDtypeToKernelDefConstraint("T", DT_STRING, k)
    ELSE k

ConcatRule(k) ==
    IF k.op = "ConcatV2"
    THEN [k EXCEPT !.constraint =
            [sl \in DOMAIN k.constraint |-> WidenConstraint(k.constraint[sl])]]
    ELSE k

\* The definition GpuOpFilter leaves behind: the three rules in source order.
GpuOpFilter(k) == ConcatRule(AssertRule(ConstRule(k)))

\* The value GpuOpFilter returns.
GpuOpFilterResult(k) == TRUE

InitFilter ==
    /\ kdef \in KernelDef
    /\ kdef_in = kdef
    /\ filter_runs = 0
    /\ eligible = "unset"
    /\ IdleConcat

\* One call GpuOpFilter(&kdef).
ApplyFilter ==
    /\ filter_runs < MaxFilterRuns
    /\ kdef' = GpuOpFilter(kdef)
    /\ eligible' = IF GpuOpFilterResult(kdef) THEN "eligible" ELSE "rejected"
    /\ filter_runs' = filter_runs + 1
    /\ UNCHANGED kdef_in
    /\ UNCHANGED cvars

NextFilter == ApplyFilter

SpecFilter == InitFilter /\ [][NextFilter]_vars

(* ===================== properties of GpuOpFilter ====================== *)
Slots(k) == DOMAIN k.constraint
IsPlaceholderT(c) == c.name = "T" /\ c.allowed = <<DT_FLOAT8_E4M3FN>>

\* C1: for a ConcatV2 kernel definition, every slot named "T" whose allowed
\* list was exactly <<DT_FLOAT8_E4M3FN>> holds, after GpuOpFilter has run,
\* exactly the element types of kGpuAllTypes, and is not empty.
C1_ConcatPlaceholderWidened ==
    (filter_runs >= 1 /\ kdef_in.op = "ConcatV2") =>
        \A sl \in Slots(kdef_in) :
            IsPlaceholderT(kdef_in.constraint[sl]) =>
                /\ Range(kdef.constraint[sl].allowed) = Range(kGpuAllTypes)
                /\ kdef.constraint[sl].allowed # <<>>

C1_Witness ==
    /\ filter_runs = 1
    /\ kdef_in.op = "ConcatV2"
    /\ \E sl \in Slots(kdef_in) : IsPlaceholderT(kdef_in.constraint[sl])

\* No rule of the filter applies to k.
NoRuleMatches(k) ==
    /\ k.op \notin {"Const", "Assert"}
    /\ \/ k.op # "ConcatV2"
       \/ ~ \E sl \in Slots(k) : IsPlaceholderT(k.constraint[sl])

\* C2: on a kernel definition no rule matches, GpuOpFilter changes nothing,
\* and a second run leaves the same constraint lists as the first.
C2_NoRuleIsNoOp ==
    (filter_runs >= 1 /\ NoRuleMatches(kdef_in)) => kdef = kdef_in

C2_Witness ==
    /\ filter_runs = 2
    /\ kdef_in.op = "ConcatV2"
    /\ NoRuleMatches(kdef_in)
    /\ \E sl \in Slots(kdef_in) :
          /\ kdef_in.constraint[sl].name = "T"
          /\ Len(kdef_in.constraint[sl].allowed) = 2
          /\ kdef_in.constraint[sl].allowed[1] = DT_FLOAT8_E4M3FN

\* C5 (as claimed): once the filter has run, a definition reported eligible
\* has no constraint slot with an empty allowed list.
C5_EligibleHasNoEmptySlot ==
    (filter_runs >= 1 /\ eligible = "eligible") =>
        \A sl \in Slots(kdef) : kdef.constraint[sl].allowed # <<>>

\* C7: after GpuOpFilter, every "dtype" slot of a Const kernel and every "T"
\* slot of an Assert kernel allows DT_STRING, and every value either kind of
\* kernel allowed before is still allowed.
C7_StringAllowed ==
    filter_runs >= 1 =>
        /\ kdef_in.op = "Const" =>
              \A sl \in Slots(kdef) :
                  kdef.constraint[sl].name = "dtype" =>
                      DT_STRING \in Range(kdef.constraint[sl].allowed)
        /\ kdef_in.op = "Assert" =>
              \A sl \in Slots(kdef) :
                  kdef.constraint[sl].name = "T" =>
                      DT_STRING \in Range(kdef.constraint[sl].allowed)
        /\ kdef_in.op \in {"Const", "Assert"} =>
              /\ Slots(kdef) = Slots(kdef_in)
              /\ \A sl \in Slots(kdef_in) :
                    Range(kdef_in.constraint[sl].allowed)
                        \subseteq Range(kdef.constraint[sl].allowed)

C7_Witness ==
    /\ filter_runs = 1
    /\ kdef_in.op = "Const"
    /\ \E sl \in Slots(kdef_in) :
          /\ kdef_in.constraint[sl].name = "dtype"
          /\ kdef_in.constraint[sl].allowed = <<DT_FLOAT>>
          /\ kdef.constraint[sl].allowed = <<DT_FLOAT, DT_STRING>>

\* C10: on a ConcatV2 kernel definition the filter keeps the op name, the
\* number, order and names of the slots, and the allowed list of every slot
\* that is not a "T" slot holding exactly <<DT_FLOAT8_E4M3FN>>.
C10_ConcatFrame ==
    (filter_runs >= 1 /\ kdef_in.op = "ConcatV2") =>
        /\ kdef.op = kdef_in.op
        /\ Len(kdef.constraint) = Len(kdef_in.constraint)
        /\ \A sl \in Slots(kdef_in) :
              /\ kdef.constraint[sl].name = kdef_in.constraint[sl].name
              /\ ~ IsPlaceholderT(kdef_in.constraint[sl]) =>
                    kdef.constraint[sl].allowed = kdef_in.constraint[sl].allowed

C10_Witness ==
    /\ filter_runs = 1
    /\ kdef_in.op = "ConcatV2"
    /\ Len(kdef_in.constraint) = 2
    /\ IsPlaceholderT(kdef_in.constraint[1])
    /\ kdef.constraint[1].allowed = kGpuAllTypes
    /\ kdef_in.constraint[2] = [name |-> "dtype", allowed |-> <<DT_FLOAT8_E4M3FN>>]

(* ====================== ConcatBaseOp::Compile ========================= *)
\* What Compile reads of an input's xla::Shape: its rank, and along the
\* concat axis dimensions(axis) and is_dynamic_dimension(axis).  For a dynamic
\* axis `size` is the upper bound of the extent.
InputShape == [rank : 1..MaxRank, size : 1..MaxExtent, dynamic : BOOLEAN]

\* [dynamic<=20, 64], [2, 64], [dynamic<=10, 64] concatenated on axis 0.
DynamicScenario ==
    << [rank |-> 2, size |-> 20, dynamic |-> TRUE],
       [rank |-> 2, size |-> 2, dynamic |-> FALSE],
       [rank |-> 2, size |-> 10, dynamic |-> TRUE] >>

\* [4, 8] and [6, 8] concatenated on axis 0.
StaticScenario ==
    << [rank |-> 2, size |-> 4, dynamic |-> FALSE],
       [rank |-> 2, size |-> 6, dynamic |-> FALSE] >>

Axes == (0 - 1)..MaxRank

N == Len(inputs)

(* ---- the instructions the lowering emits; an XlaOp is an index of instrs *)
ParameterInstr(k) == [op |-> "Parameter", a |-> k, b |-> 0, c |-> 0]
ConcatInDim(ax) == [op |-> "Concatenate", a |-> 0, b |-> 0, c |-> ax]
GetDimensionSize(h, ax) == [op |-> "GetDimensionSize", a |-> h, b |-> 0, c |-> ax]
\* ConstantR0<int32_t>: v is an extent of the model, far inside int32_t.
ConstantR0(v) == [op |-> "Constant", a |-> v, b |-> 0, c |-> 0]
Add(x, y) == [op |-> "Add", a |-> x, b |-> y, c |-> 0]
SetDimensionSize(h, sz, ax) == [op |-> "SetDimensionSize", a |-> h, b |-> sz, c |-> ax]

\* input_data[k]: the inputs are the first N instructions of the builder.
input_data(k) == k

(* ---- the checks Compile makes before it emits anything ---- *)
RanksAgree(ins) == \A k \in DOMAIN ins : ins[k].rank = ins[1].rank
AxisInRange(ins, ax) == 0 <= ax /\ ax < ins[1].rank

\* Faulty variant: the rank comparison is missing.
ShapeInferenceOk_NoRankCheck(ins, ax) == AxisInRange(ins, ax)

ShapeInferenceOk(ins, ax) == RanksAgree(ins) /\ AxisInRange(ins, ax)

(* ---- the pieces of the loop body ---- *)
\* Faulty variant: the extent of every input is taken from its static shape.
InputSizeInstr_StaticOnly(k) == ConstantR0(inputs[k].size)

\* input_size of input k.
InputSizeInstr(k) ==
    IF inputs[k].dynamic
    THEN GetDimensionSize(input_data(k), axis)
    ELSE ConstantR0(inputs[k].size)

\* Faulty variant: the operands of the addition are swapped.
AccumulateInstr_Swapped(acc, sz) == Add(sz, acc)

\* dynamic_size_sum = xla::Add(dynamic_size_sum, input_size)
AccumulateInstr(acc, sz) == Add(acc, sz)

\* Faulty variant: the dynamic size is set whenever there is an input.
NeedsSetDimensionSize_Always(any_dynamic, n) == n > 0

\* if (any_input_dynamic && N > 0)
NeedsSetDimensionSize(any_dynamic, n) == any_dynamic /\ n > 0

InitConcat ==
    /\ \/ /\ inputs \in UNION {[1..n -> InputShape] : n \in 1..MaxN}
          /\ axis \in Axes
       \/ /\ inputs \in {DynamicScenario, StaticScenario}
          /\ axis = 0
    /\ pc = "start"
    /\ i = 0
    /\ instrs = [k \in 1..Len(inputs) |-> ParameterInstr(k)]
    /\ result = 0
    /\ any_input_dynamic = FALSE
    /\ dynamic_size_sum = 0
    /\ size_sum_initialized = FALSE
    /\ output = 0
    /\ status = "running"
    /\ IdleFilter

\* Compile up to the loop: the shape checks, then ConcatInDim.
CompileBegin ==
    /\ pc = "start"
    /\ IF ShapeInferenceOk(inputs, axis)
       THEN /\ instrs' = Append(instrs, ConcatInDim(axis))
            /\ result' = Len(instrs) + 1
            /\ pc' = "loop"
            /\ UNCHANGED status
       ELSE /\ status' = "shape_inference_error"
            /\ pc' = "done"
            /\ UNCHANGED <<instrs, result>>
    /\ any_input_dynamic' = FALSE
    /\ size_sum_initialized' = FALSE
    /\ i' = 0
    /\ UNCHANGED <<inputs, axis, dynamic_size_sum, output>>
    /\ UNCHANGED fvars

\* One iteration of for (int i = 0; i < N; ++i); shape_ok is the status of
\* ctx->InputXlaShape(i).
LoopIter ==
    /\ pc = "loop"
    /\ i < N
    /\ \E shape_ok \in BOOLEAN :
         IF ~ shape_ok
         THEN /\ status' = "shape_query_error"
              /\ pc' = "done"
              /\ UNCHANGED <<i, instrs, any_input_dynamic, dynamic_size_sum,
                             size_sum_initialized>>
         ELSE LET k == i + 1
                  input_size == Len(instrs) + 1
              IN  /\ any_input_dynamic' = (any_input_dynamic \/ inputs[k].dynamic)
                  /\ IF ~ size_sum_initialized
                     THEN /\ instrs' = Append(instrs, InputSizeInstr(k))
                          /\ dynamic_size_sum' = input_size
                     ELSE /\ instrs' = instrs \o
                                << InputSizeInstr(k),
                                   AccumulateInstr(dynamic_size_sum, input_size) >>
                          /\ dynamic_size_sum' = input_size + 1
                  /\ size_sum_initialized' = TRUE
                  /\ i' = i + 1
                  /\ UNCHANGED <<pc, status>>
    /\ UNCHANGED <<inputs, axis, result, output>>
    /\ UNCHANGED fvars

\* After the loop: SetDimensionSize if needed, then ctx->SetOutput(0, result).
CompileEnd ==
    /\ pc = "loop"
    /\ i = N
    /\ IF NeedsSetDimensionSize(any_input_dynamic, N)
       THEN /\ instrs' = Append(instrs,
                            SetDimensionSize(result, dynamic_size_sum, axis))
            /\ result' = Len(instrs) + 1
       ELSE UNCHANGED <<instrs, result>>
    /\ output' = result'
    /\ status' = "ok"
    /\ pc' = "done"
    /\ UNCHANGED <<inputs, axis, i, any_input_dynamic, dynamic_size_sum,
                   size_sum_initialized>>
    /\ UNCHANGED fvars

NextConcat == CompileBegin \/ LoopIter \/ CompileEnd

SpecConcat == InitConcat /\ [][NextConcat]_vars

(* ================= properties of ConcatBaseOp::Compile ================ *)
Inputs == DOMAIN inputs
AllStatic == \A k \in Inputs : ~ inputs[k].dynamic
SomeDynamic == \E k \in Inputs : inputs[k].dynamic
Finished == pc = "done" /\ status = "ok"

RECURSIVE SumTo(_, _)
\* f[1] + ... + f[n]
SumTo(f, n) == IF n = 0 THEN 0 ELSE SumTo(f, n - 1) + f[n]

\* The dimension of XlaOp h along the concat axis: ConcatInDim gives the sum
\* of the inputs' static extents and a static axis, SetDimensionSize marks
\* the axis dynamic.
RECURSIVE AxisDim(_)
AxisDim(h) ==
    IF instrs[h].op = "Parameter"
    THEN [size |-> inputs[instrs[h].a].size, dynamic |-> inputs[instrs[h].a].dynamic]
    ELSE IF instrs[h].op = "Concatenate"
    THEN [size |-> SumTo([k \in Inputs |-> inputs[k].size], N), dynamic |-> FALSE]
    ELSE [size |-> AxisDim(instrs[h].a).size, dynamic |-> TRUE]

\* The largest static extent (or bound) among the inputs.
LargestBound ==
    CHOOSE m \in {inputs[k].size : k \in Inputs} :
        \A k \in Inputs : inputs[k].size <= m

\* The run-time sizes the inputs can have along the axis: a static input has
\* its extent, a dynamic one anything up to its bound.
RuntimeSizes ==
    {rt \in [Inputs -> 0..LargestBound] :
        \A k \in Inputs :
            IF inputs[k].dynamic THEN rt[k] <= inputs[k].size
                                 ELSE rt[k] = inputs[k].size}

\* The value of the scalar XlaOp h at run time, the inputs having sizes rt.
RECURSIVE Eval(_, _)
Eval(h, rt) ==
    IF instrs[h].op = "Constant" THEN instrs[h].a
    ELSE IF instrs[h].op = "GetDimensionSize" THEN rt[instrs[h].a]
    ELSE Eval(instrs[h].a, rt) + Eval(instrs[h].b, rt)

\* The expression XlaOp h computes, as a term.
RECURSIVE Expr(_)
Expr(h) ==
    IF instrs[h].op = "Add"
    THEN <<"Add", Expr(instrs[h].a), Expr(instrs[h].b)>>
    ELSE <<instrs[h].op, instrs[h].a>>

\* The extent of input k as a term.
Leaf(k) ==
    IF inputs[k].dynamic THEN <<"GetDimensionSize", k>>
                         ELSE <<"Constant", inputs[k].size>>

\* ((e1 + e2) + e3) + ... + en
RECURSIVE LeftFold(_)
LeftFold(n) == IF n = 1 THEN Leaf(1) ELSE <<"Add", LeftFold(n - 1), Leaf(n)>>

OpsOf(kind) == {h \in DOMAIN instrs : instrs[h].op = kind}

\* C3: when no input is dynamic along the axis and the lowering completes,
\* the output's axis extent is static and is the sum of the inputs' extents,
\* and no SetDimensionSize has been emitted; the lowering of shape-correct
\* inputs ends in no shape-inference error.
C3_StaticConcat ==
    (pc = "done" /\ ShapeInferenceOk(inputs, axis) /\ AllStatic) =>
        /\ status # "shape_inference_error"
        /\ status = "ok" =>
              /\ output # 0
              /\ instrs[output].op = "Concatenate"
              /\ ~ AxisDim(output).dynamic
              /\ AxisDim(output).size = SumTo([k \in Inputs |-> inputs[k].size], N)
              /\ OpsOf("SetDimensionSize") = {}

C3_Witness ==
    /\ Finished
    /\ inputs = StaticScenario
    /\ axis = 0
    /\ AxisDim(output) = [size |-> 10, dynamic |-> FALSE]

\* C4: when some input is dynamic along the axis and the lowering completes,
\* the output is the concat with SetDimensionSize applied on the concat axis,
\* its axis is dynamic, and the size operand evaluates, for every run-time
\* size of the inputs, to the sum of the inputs' actual extents.
C4_DynamicConcat ==
    (Finished /\ SomeDynamic) =>
        /\ output # 0
        /\ instrs[output].op = "SetDimensionSize"
        /\ instrs[output].c = axis
        /\ instrs[instrs[output].a].op = "Concatenate"
        /\ AxisDim(output).dynamic
        /\ \A rt \in RuntimeSizes :
              Eval(instrs[output].b, rt) = SumTo(rt, N)

C4_Witness ==
    /\ Finished
    /\ inputs = DynamicScenario
    /\ AxisDim(output).dynamic
    /\ LET rt == [k \in Inputs |-> IF k = 1 THEN 5 ELSE IF k = 2 THEN 2 ELSE 3]
       IN  rt \in RuntimeSizes /\ Eval(instrs[output].b, rt) = 10

\* C6: when the ranks disagree or the axis is out of range the lowering never
\* enters the loop and ends in a shape-inference error with no output set, no
\* concat emitted and no SetDimensionSize emitted.
C6_ShapeErrorNoOutput ==
    ~ (RanksAgree(inputs) /\ AxisInRange(inputs, axis)) =>
        /\ pc \in {"idle", "start", "done"}
        /\ output = 0
        /\ result = 0
        /\ OpsOf("Concatenate") = {}
        /\ OpsOf("SetDimensionSize") = {}
        /\ pc = "done" => status = "shape_inference_error"

C6_Witness ==
    /\ pc = "done"
    /\ status = "shape_inference_error"
    /\ N = 2
    /\ inputs[1].rank # inputs[2].rank
    /\ AxisInRange(inputs, axis)

\* C8 (as claimed): when all inputs are static along the axis, the completed
\* lowering has emitted no size query, no size constant and no addition.
C8_StaticEmitsNothingElse ==
    (Finished /\ AllStatic) =>
        /\ OpsOf("GetDimensionSize") = {}
        /\ OpsOf("Constant") = {}
        /\ OpsOf("Add") = {}

\* C9: after k >= 1 iterations the accumulator is the left fold
\* ((e1 + e2) + ...) + ek of the extents of the first k inputs in input
\* order, with exactly k - 1 additions emitted; before the first iteration
\* there is no accumulator and no addition.
C9_LeftFold ==
    pc \in {"loop", "done"} /\ status # "shape_inference_error" =>
        /\ Cardinality(OpsOf("Add")) = (IF i = 0 THEN 0 ELSE i - 1)
        /\ i = 0 => dynamic_size_sum = 0
        /\ i >= 1 => Expr(dynamic_size_sum) = LeftFold(i)
        /\ Finished => i = N

C9_Witness ==
    /\ Finished
    /\ N = 3
    /\ Cardinality(OpsOf("Add")) = 2
    /\ instrs[dynamic_size_sum].op = "Add"
    /\ instrs[instrs[dynamic_size_sum].a].op = "Add"
    /\ instrs[instrs[dynamic_size_sum].b].op # "Add"

====
